---- MODULE Spec2Model ----
(***************************************************************************)
(* A model of repotest (src/repotest.go): discovery of the go.work file,   *)
(* parsing of its "use ( ... )" block, the concurrent execution of one     *)
(* "go test" subprocess per member, and the presentation of the results.   *)
(*                                                                         *)
(* Strings are sequences of one-character strings, so that the string      *)
(* functions of the program (TrimSpace, Contains, HasPrefix, Join, Dir,    *)
(* Rel, <) are computed and not assumed.                                   *)
(***************************************************************************)
EXTENDS Integers, Sequences, FiniteSets, TLC

VARIABLES
    \* ---- the file system and getWorkspacePaths (repotest.go 59-95)
    cwd,        \* os.Getwd(): the current directory
    workDirs,   \* the directories that hold an entry named go.work
    fileLines,  \* the lines of the go.work file
    listErrAt,  \* the directories whose listing fails (os.ReadDir error)
    getwdErr,   \* os.Getwd fails
    fileErr,    \* opening or scanning the go.work file fails
    gpc,        \* position of getWorkspacePaths
    path,       \* its local variable path
    listErr,    \* an os.ReadDir error was met
    \* ---- main (repotest.go 32-45)
    wPath,      \* workspace root returned by getWorkspacePaths
    paths,      \* member list returned by getWorkspacePaths
    showFail,   \* flag -showFail
    mainPc,     \* position of the main goroutine
    \* ---- execAllTests (repotest.go 138-165)
    lpc,        \* position of the launcher goroutine (line 146)
    li,         \* index of the next member the launcher spawns a worker for
    wpc,        \* position of each worker goroutine (line 150)
    wout,       \* the output each worker got from execTest
    wg,         \* sync.WaitGroup counter
    chCap,      \* capacity of resultCh
    ch,         \* records buffered in resultCh
    chClosed,   \* resultCh is closed
    results,    \* the slice results
    panicked,   \* an analyzer call failed (log.Panic, line 188)
    crashed,    \* the process was terminated by a panic
    \* ---- printResults (repotest.go 207-231)
    stdout,     \* what was printed, one element per line or block
    sendOrder   \* history: the workers in the order of their sends

vars == <<cwd, workDirs, fileLines, listErrAt, getwdErr, fileErr, gpc, path, listErr,
          wPath, paths, showFail, mainPc,
          lpc, li, wpc, wout, wg, chCap, ch, chClosed, results,
          panicked, crashed, stdout, sendOrder>>

wsVars  == <<cwd, workDirs, fileLines, listErrAt, getwdErr, fileErr, gpc, path,
             listErr>>
runVars == <<lpc, li, wpc, wout, wg, chCap, ch, chClosed, results,
             panicked, crashed>>

-----------------------------------------------------------------------------
(* Bounds of the model *)

\* deepest current directory: /d/d/...  with MaxDepth components
MaxDepth == 2
\* most lines in a go.work file
MaxLines == 4
\* most members handed to execAllTests
MaxPaths == 2

-----------------------------------------------------------------------------
(* Strings *)

\* byte value of the characters the model uses (Go compares strings bytewise)
Ord(c) ==
    CASE c = "\t" -> 9
      [] c = " "  -> 32
      [] c = "("  -> 40
      [] c = ")"  -> 41
      [] c = "."  -> 46
      [] c = "/"  -> 47
      [] c = "a"  -> 97
      [] c = "b"  -> 98
      [] c = "c"  -> 99
      [] c = "d"  -> 100
      [] c = "e"  -> 101
      [] c = "g"  -> 103
      [] c = "o"  -> 111
      [] c = "s"  -> 115
      [] c = "u"  -> 117
      [] c = "w"  -> 119

\* Go's s < t on strings: bytewise lexicographic
StrLess(s, t) ==
    LET n == IF Len(s) < Len(t) THEN Len(s) ELSE Len(t)
        diff == {k \in 1..n : s[k] # t[k]}
    IN  IF diff = {} THEN Len(s) < Len(t)
        ELSE LET k == CHOOSE m \in diff : \A o \in diff : m <= o
             IN  Ord(s[k]) < Ord(t[k])

IsSpace(c) == c \in {" ", "\t"}

\* strings.TrimSpace
RECURSIVE TrimLeft(_)
TrimLeft(s) ==
    IF s # <<>> /\ IsSpace(Head(s)) THEN TrimLeft(Tail(s)) ELSE s

RECURSIVE TrimRight(_)
TrimRight(s) ==
    IF s # <<>> /\ IsSpace(s[Len(s)]) THEN TrimRight(SubSeq(s, 1, Len(s) - 1)) ELSE s

TrimSpace(s) == TrimRight(TrimLeft(s))

\* strings.Contains(s, c) for a one-character c
Contains(s, c) == \E i \in 1..Len(s) : s[i] = c

\* strings.HasPrefix
HasPrefix(s, p) == Len(s) >= Len(p) /\ SubSeq(s, 1, Len(p)) = p

\* strings.Repeat(c, n) for n >= 0
Repeat(c, n) == [i \in 1..n |-> c]

\* the elements of a path between separators, empty elements included
SplitPath(s) ==
    LET seps == {k \in 1..Len(s) : s[k] = "/"}
        n == Cardinality(seps) + 1
        \* the position of the m-th separator
        sep(m) == CHOOSE k \in seps : Cardinality({j \in seps : j < k}) = m - 1
    IN  [m \in 1..n |->
            SubSeq(s, IF m = 1 THEN 1 ELSE sep(m - 1) + 1,
                      IF m = n THEN Len(s) ELSE sep(m) - 1)]

RECURSIVE JoinElems(_)
JoinElems(es) ==
    IF es = <<>> THEN <<>>
    ELSE IF Len(es) = 1 THEN es[1]
    ELSE es[1] \o <<"/">> \o JoinElems(Tail(es))

IsAbs(s) == s # <<>> /\ s[1] = "/"

\* filepath.Clean on the elements: "" and "." are dropped, ".." removes the
\* element before it (at the root of an absolute path it is dropped, at the
\* start of a relative path it is kept)
RECURSIVE CleanElems(_, _, _)
CleanElems(es, acc, abs) ==
    IF es = <<>> THEN acc
    ELSE LET e == Head(es) IN
         IF e = <<>> \/ e = <<".">> THEN CleanElems(Tail(es), acc, abs)
         ELSE IF e = <<".", ".">> THEN
              IF acc # <<>> /\ acc[Len(acc)] # <<".", ".">>
              THEN CleanElems(Tail(es), SubSeq(acc, 1, Len(acc) - 1), abs)
              ELSE IF abs THEN CleanElems(Tail(es), acc, abs)
              ELSE CleanElems(Tail(es), Append(acc, e), abs)
         ELSE CleanElems(Tail(es), Append(acc, e), abs)

\* filepath.Clean
Clean(s) ==
    LET es == CleanElems(SplitPath(s), <<>>, IsAbs(s)) IN
    IF IsAbs(s) THEN <<"/">> \o JoinElems(es)
    ELSE IF es = <<>> THEN <<".">>
    ELSE JoinElems(es)

\* filepath.Join(a, b): empty elements are ignored, the result is cleaned
Join(a, b) ==
    IF a = <<>> /\ b = <<>> THEN <<>>
    ELSE IF a = <<>> THEN Clean(b)
    ELSE IF b = <<>> THEN Clean(a)
    ELSE Clean(a \o <<"/">> \o b)

\* filepath.Dir: the path without its last element, cleaned
Dir(s) ==
    LET seps == {k \in 1..Len(s) : s[k] = "/"} IN
    IF seps = {} THEN <<".">>
    ELSE LET i == CHOOSE k \in seps : \A j \in seps : j <= k
         IN  Clean(SubSeq(s, 1, i))

\* the elements of a cleaned absolute path
AbsElems(s) == CHOOSE r \in {CleanElems(es, <<>>, TRUE) : es \in {SplitPath(s)}} : TRUE

\* Rel on the elements b of base and t of targ: the common leading elements
\* are dropped, one ".." stands for every element left in base
RelElems(b, t) ==
    LET common == {k \in 0..Len(b) :
                      k <= Len(t) /\ \A j \in 1..k : b[j] = t[j]}
        k == CHOOSE n \in common : \A m \in common : m <= n
        es == [i \in 1..(Len(b) - k) |-> <<".", ".">>] \o SubSeq(t, k + 1, Len(t))
    IN  IF es = <<>> THEN <<".">> ELSE JoinElems(es)

\* filepath.Rel(base, targ) for two absolute paths (each path is split and
\* cleaned once)
Rel(base, targ) ==
    CHOOSE r \in {RelElems(b, t) : b \in {AbsElems(base)}, t \in {AbsElems(targ)}} : TRUE

-----------------------------------------------------------------------------
(* The file system *)

\* const workFile (line 60) is the only entry name the program looks for, so
\* a directory is modelled by whether it holds an entry of that name
RootDir == <<"/">>

\* the directory /d/d/.../d with n elements
RECURSIVE DirAt(_)
DirAt(n) == IF n = 0 THEN RootDir ELSE Join(DirAt(n - 1), <<"d">>)

Dirs == {DirAt(n) : n \in 0..MaxDepth}

UseOpen == <<"u", "s", "e", " ", "(">>

\* the lines a go.work file is made of
LineSet == { UseOpen, <<" ", "a", "\t">>, <<")">>, <<"g", "o">> }

RECURSIVE SeqsUpTo(_, _)
SeqsUpTo(S, n) ==
    IF n = 0 THEN {<<>>}
    ELSE LET shorter == SeqsUpTo(S, n - 1)
         IN  shorter \cup {Append(q, x) : q \in {r \in shorter : Len(r) = n - 1}, x \in S}

Files == SeqsUpTo(LineSet, MaxLines)

-----------------------------------------------------------------------------
(* readWorkspaceFile, lines 100-133 *)

\* the scanner loop of lines 117-125 over the lines from index i on, with the
\* packages and the capture flag so far
RECURSIVE ScanLines(_, _, _, _, _)
ScanLines(root, lines, i, packages, beginCapture) ==
    IF i > Len(lines) THEN packages
    ELSE LET line == lines[i] IN
         IF beginCapture /\ ~Contains(line, ")")
         THEN ScanLines(root, lines, i + 1,
                        Append(packages, Join(root, TrimSpace(line))), beginCapture)
         ELSE IF HasPrefix(line, UseOpen)
         THEN ScanLines(root, lines, i + 1, packages, TRUE)
         ELSE ScanLines(root, lines, i + 1, packages, beginCapture)

\* a nil slice is the empty sequence; failed: os.Open (lines 102-106) or the
\* scanner (lines 127-130) reports an error
readWorkspaceFile(root, lines, failed) ==
    IF failed THEN <<>> ELSE ScanLines(root, lines, 1, <<>>, FALSE)

-----------------------------------------------------------------------------
(* getWorkspacePaths, lines 59-95 *)

\* line 62: path, err := os.Getwd()
Getwd ==
    /\ gpc = "getwd"
    /\ IF getwdErr
       THEN \* lines 63-66
            /\ wPath' = <<>>
            /\ paths' = <<>>
            /\ gpc' = "done"
            /\ path' = path
       ELSE /\ path' = cwd
            /\ gpc' = "loop"
            /\ UNCHANGED <<wPath, paths>>
    /\ UNCHANGED <<cwd, workDirs, fileLines, listErrAt, getwdErr, fileErr, listErr>>
    /\ UNCHANGED <<showFail, mainPc, runVars, stdout, sendOrder>>

\* one iteration of the loop of lines 69-91
SearchDir ==
    /\ gpc = "loop"
    /\ IF path \in listErrAt
       THEN \* lines 71-74
            /\ listErr' = TRUE
            /\ wPath' = <<>>
            /\ paths' = <<>>
            /\ gpc' = "done"
            /\ path' = path
       ELSE IF path \in workDirs
       THEN \* lines 76-80
            /\ wPath' = path
            /\ paths' = readWorkspaceFile(path, fileLines, fileErr)
            /\ gpc' = "done"
            /\ UNCHANGED <<path, listErr>>
       ELSE \* lines 85-90
            /\ path' = Dir(path)
            /\ gpc' = IF Len(path') = 1 THEN "exit" ELSE "loop"
            /\ UNCHANGED <<listErr, wPath, paths>>
    /\ UNCHANGED <<cwd, workDirs, fileLines, listErrAt, getwdErr, fileErr>>
    /\ UNCHANGED <<showFail, mainPc, runVars, stdout, sendOrder>>

\* line 94: the workspace file was not found
ReturnNotFound ==
    /\ gpc = "exit"
    /\ wPath' = <<>>
    /\ paths' = <<>>
    /\ gpc' = "done"
    /\ UNCHANGED <<cwd, workDirs, fileLines, listErrAt, getwdErr, fileErr, path,
                   listErr>>
    /\ UNCHANGED <<showFail, mainPc, runVars, stdout, sendOrder>>

-----------------------------------------------------------------------------
(* Test records *)

\* what testjson.ScanTestOutput yields for a well-formed output: the values
\* of Total(), len(Errors()) and len(Failed()) of the *testjson.Execution
Executions == [total : {0, 2}, errors : {0, 1}, failed : {0, 1}]

\* what a "go test -json" subprocess writes to its standard output in the
\* concurrent runs: the events of a passing run, those of a failing run, or
\* bytes the scanner rejects
Outputs == {"pass", "fail", "garbage"}

\* testjson.ScanTestOutput fails (line 187: err != nil)
ScanFails(out) == out = "garbage"

\* the *testjson.Execution of an output the scanner accepts
ScanTestOutput(out) ==
    IF out = "pass" THEN [total |-> 2, errors |-> 0, failed |-> 0]
    ELSE [total |-> 2, errors |-> 0, failed |-> 1]

NoOutput == "none"

\* removeRelativePath, lines 199-202
removeRelativePath(root, p) == Rel(root, p)

\* analyzeTest, lines 191-194: the record built when the scan succeeds
analyzeTest(root, p, out) ==
    [label |-> removeRelativePath(root, p), testExec |-> ScanTestOutput(out)]

-----------------------------------------------------------------------------
(* execAllTests, lines 138-165 *)

Workers == 1..Len(paths)

\* a channel one slot short of the member count
ChanCapOneShort(ps) == Len(ps) - 1

\* line 144: make(chan testAnalysis, len(paths))
ChanCap(ps) == Len(ps)

\* line 149: wg.Add(1)
WgAdd(n) == n + 1

\* line 151: wg.Done()
WgDone(n) == n - 1

\* a barrier that does not wait for the workers
WaitReturnsAtOnce(n) == TRUE

\* line 156: wg.Wait() returns
WaitReturns(n) == n = 0

\* a drain loop that stops as soon as the channel is empty
RangeEndsWhenEmpty(buf, closed) == buf = <<>>

\* line 160: the range loop ends when the channel is closed and drained
RangeEnds(buf, closed) == buf = <<>> /\ closed

\* lines 139-158: the call of execAllTests up to the start of the drain loop
ExecAllTests ==
    /\ mainPc = "exec"
    /\ ~crashed
    /\ IF Len(paths) = 0
       THEN \* lines 139-141
            /\ results' = <<>>
            /\ mainPc' = "print"
            /\ UNCHANGED <<chCap, lpc>>
       ELSE \* lines 143-146
            /\ results' = <<>>
            /\ chCap' = ChanCap(paths)
            /\ lpc' = "loop"
            /\ mainPc' = "drain"
    /\ UNCHANGED <<wsVars, wPath, paths, showFail, li, wpc, wout, wg, ch,
                   chClosed, panicked, crashed, stdout, sendOrder>>

\* lines 148-155: one iteration of the launcher's loop starts a worker
LauncherSpawn ==
    /\ lpc = "loop"
    /\ ~crashed
    /\ wg' = WgAdd(wg)
    /\ wpc' = [wpc EXCEPT ![li] = "exec"]
    /\ li' = li + 1
    /\ lpc' = IF li = Len(paths) THEN "wait" ELSE "loop"
    /\ UNCHANGED <<wsVars, wPath, paths, showFail, mainPc, wout, chCap, ch,
                   chClosed, results, panicked, crashed, stdout, sendOrder>>

\* line 156: wg.Wait()
LauncherWait ==
    /\ lpc = "wait"
    /\ ~crashed
    /\ WaitReturns(wg)
    /\ lpc' = "close"
    /\ UNCHANGED <<wsVars, wPath, paths, showFail, mainPc, li, wpc, wout, wg,
                   chCap, ch, chClosed, results, panicked, crashed, stdout, sendOrder>>

\* line 157: close(resultCh)
LauncherClose ==
    /\ lpc = "close"
    /\ ~crashed
    /\ chClosed' = TRUE
    /\ lpc' = "done"
    /\ UNCHANGED <<wsVars, wPath, paths, showFail, mainPc, li, wpc, wout, wg,
                   chCap, ch, results, panicked, crashed, stdout, sendOrder>>

\* line 152, execTest (lines 169-180): the subprocess exits and its standard
\* output is returned, whatever its exit status (useCache only chooses
\* between the command lines of line 174 and line 176)
ExecTest(i) ==
    /\ i \in Workers
    /\ wpc[i] = "exec"
    /\ ~crashed
    /\ \E out \in Outputs : wout' = [wout EXCEPT ![i] = out]
    /\ wpc' = [wpc EXCEPT ![i] = "analyze"]
    /\ UNCHANGED <<wsVars, wPath, paths, showFail, mainPc, lpc, li, wg, chCap,
                   ch, chClosed, results, panicked, crashed, stdout, sendOrder>>

\* line 152, execTest (line 174 or 176): there is no timeout, and the
\* subprocess of this worker never exits
ExecNeverExits(i) ==
    /\ i \in Workers
    /\ wpc[i] = "exec"
    /\ ~crashed
    /\ wpc' = [wpc EXCEPT ![i] = "hung"]
    /\ UNCHANGED <<wsVars, wPath, paths, showFail, mainPc, lpc, li, wout, wg, chCap,
                   ch, chClosed, results, panicked, crashed, stdout, sendOrder>>

\* line 153: resultCh <- analyzeTest(wPath, p, out); analyzeTest panics when
\* the scan fails (lines 187-189), a send on a closed channel panics, and a
\* send on a full channel blocks
AnalyzeAndSend(i) ==
    /\ i \in Workers
    /\ wpc[i] = "analyze"
    /\ ~crashed
    /\ wout' = [wout EXCEPT ![i] = NoOutput]
    /\ IF ScanFails(wout[i]) \/ chClosed
       THEN /\ panicked' = TRUE
            /\ wpc' = [wpc EXCEPT ![i] = "panicking"]
            /\ UNCHANGED <<ch, sendOrder>>
       ELSE /\ Len(ch) < chCap
            /\ ch' = Append(ch, analyzeTest(wPath, paths[i], wout[i]))
            /\ wpc' = [wpc EXCEPT ![i] = "sent"]
            /\ sendOrder' = Append(sendOrder, i)
            /\ panicked' = panicked
    /\ UNCHANGED <<wsVars, wPath, paths, showFail, mainPc, lpc, li, wg,
                   chCap, chClosed, results, crashed, stdout>>

\* line 151: the deferred wg.Done(), also run while a panic unwinds
WorkerDone(i) ==
    /\ i \in Workers
    /\ wpc[i] \in {"sent", "panicking"}
    /\ ~crashed
    /\ wg' = WgDone(wg)
    /\ wpc' = [wpc EXCEPT ![i] = IF wpc[i] = "sent" THEN "done" ELSE "dying"]
    /\ UNCHANGED <<wsVars, wPath, paths, showFail, mainPc, lpc, li, wout, chCap,
                   ch, chClosed, results, panicked, crashed, stdout, sendOrder>>

\* an unrecovered panic of a worker ends the process, after its deferred calls
Crash ==
    /\ ~crashed
    /\ \E i \in Workers : wpc[i] = "dying"
    /\ crashed' = TRUE
    /\ UNCHANGED <<wsVars, wPath, paths, showFail, mainPc, lpc, li, wpc, wout,
                   wg, chCap, ch, chClosed, results, panicked, stdout, sendOrder>>

\* lines 160-162: one iteration of the drain loop
MainRecv ==
    /\ mainPc = "drain"
    /\ ~crashed
    /\ ch # <<>>
    /\ results' = Append(results, Head(ch))
    /\ ch' = Tail(ch)
    /\ UNCHANGED <<wsVars, wPath, paths, showFail, mainPc, lpc, li, wpc, wout,
                   wg, chCap, chClosed, panicked, crashed, stdout, sendOrder>>

\* lines 160, 164: the drain loop ends and execAllTests returns
MainReturn ==
    /\ mainPc = "drain"
    /\ ~crashed
    /\ RangeEnds(ch, chClosed)
    /\ mainPc' = "print"
    /\ UNCHANGED <<wsVars, wPath, paths, showFail, lpc, li, wpc, wout, wg,
                   chCap, ch, chClosed, results, panicked, crashed, stdout, sendOrder>>

-----------------------------------------------------------------------------
(* printResults, lines 207-231 *)

\* line 274: the width the banner of a detail block is centred in
BannerWidth == 80

\* Go's integer division truncates toward zero
GoDiv(a, b) == IF a >= 0 THEN a \div b ELSE -((-a) \div b)

\* a less function with the comparison reversed
LabelGreater(a, b) == StrLess(b.label, a.label)

\* lines 213-215: the less function handed to sort.Slice
LabelLess(a, b) == StrLess(a.label, b.label)

\* sort.Slice is not stable: it may leave the slice in any order that less
\* accepts
SortSlice(rs) ==
    LET n == Len(rs)
        perms == {[i \in 1..n |-> rs[f[i]]] : f \in Permutations(1..n)}
    IN  {t \in perms : \A i, j \in 1..n : i < j => ~LabelLess(t[j], t[i])}

\* getMaxLabel, lines 234-247
RECURSIVE MaxLabel(_, _)
MaxLabel(rs, maxLen) ==
    IF rs = <<>> THEN maxLen
    ELSE MaxLabel(Tail(rs), IF Len(Head(rs).label) > maxLen
                            THEN Len(Head(rs).label) ELSE maxLen)

getMaxLabel(rs) == MaxLabel(rs, 0) + 1

\* a test for the failure icon that forgets the errors
SummaryFailsOnFailedOnly(e) == e.failed > 0

\* line 262: the test printSummary makes for the failure icon
SummaryFails(e) == e.errors > 0 \/ e.failed > 0

\* line 273: the test printFailedDetail makes
DetailFails(e) == e.errors > 0 \/ e.failed > 0

\* printSummary, lines 255-269: the line printed for a record; the elapsed
\* time is an opaque value of the analyzer
printSummary(ta, labelLen) ==
    LET e == ta.testExec IN
    IF e.total = 0
    THEN [kind |-> "summary", icon |-> "skipped", width |-> labelLen,
          label |-> ta.label, fields |-> <<>>]
    ELSE IF SummaryFails(e)
    THEN [kind |-> "summary", icon |-> "failure", width |-> labelLen,
          label |-> ta.label,
          fields |-> << <<"tests", e.total>>, <<"elapsed", 0>>,
                        <<"errors", e.errors>>, <<"failed", e.failed>> >>]
    ELSE [kind |-> "summary", icon |-> "success", width |-> labelLen,
          label |-> ta.label,
          fields |-> << <<"tests", e.total>>, <<"elapsed", 0>> >>]

\* line 274: cnt := (80 - len(ta.label)) / 2
BannerCount(label) == GoDiv(BannerWidth - Len(label), 2)

\* printFailedDetail, lines 272-279, for the records from the first one on:
\* the blocks printed, and whether strings.Repeat panicked on a negative
\* count (which ends the loop and the program)
RECURSIVE FailedDetails(_)
FailedDetails(rs) ==
    IF rs = <<>> THEN [lines |-> <<>>, panic |-> FALSE]
    ELSE LET ta == Head(rs) IN
         IF DetailFails(ta.testExec)
         THEN IF BannerCount(ta.label) < 0
              THEN [lines |-> <<>>, panic |-> TRUE]
              ELSE LET rest == FailedDetails(Tail(rs))
                       block == [kind |-> "detail", icon |-> "failure",
                                 width |-> BannerCount(ta.label),
                                 label |-> ta.label,
                                 fields |-> << <<"tests", ta.testExec.total>>,
                                               <<"errors", ta.testExec.errors>>,
                                               <<"failed", ta.testExec.failed>> >>]
                   IN  [lines |-> <<block>> \o rest.lines, panic |-> rest.panic]
         ELSE FailedDetails(Tail(rs))

Header == [kind |-> "header", icon |-> "", width |-> 0, label |-> <<>>, fields |-> <<>>]
Blank  == [kind |-> "blank", icon |-> "", width |-> 0, label |-> <<>>, fields |-> <<>>]

\* lines 219-223
Summaries(rs) ==
    <<Header>> \o [i \in 1..Len(rs) |-> printSummary(rs[i], getMaxLabel(rs))]
               \o <<Blank>>

\* line 44: printResults(results, *showFailures)
PrintResults ==
    /\ mainPc = "print"
    /\ ~crashed
    /\ IF Len(results) = 0
       THEN \* lines 208-210
            /\ UNCHANGED <<results, stdout, crashed>>
       ELSE \E sorted \in SortSlice(results) :
            /\ results' = sorted
            /\ IF showFail
               THEN LET d == FailedDetails(sorted) IN
                    /\ stdout' = Summaries(sorted) \o d.lines
                                    \o (IF d.panic THEN <<>> ELSE <<Blank>>)
                    /\ crashed' = d.panic
               ELSE /\ stdout' = Summaries(sorted)
                    /\ crashed' = crashed
    /\ mainPc' = IF crashed' THEN "print" ELSE "done"
    /\ UNCHANGED <<wsVars, wPath, paths, showFail, lpc, li, wpc, wout, wg,
                   chCap, ch, chClosed, panicked, sendOrder>>

-----------------------------------------------------------------------------
(* Specifications *)

\* the state of execAllTests and printResults before main calls them
RunIdle ==
    /\ lpc = "idle"
    /\ li = 1
    /\ wpc = [i \in Workers |-> "none"]
    /\ wout = [i \in Workers |-> NoOutput]
    /\ wg = 0
    /\ chCap = 0
    /\ ch = <<>>
    /\ chClosed = FALSE
    /\ results = <<>>
    /\ panicked = FALSE
    /\ crashed = FALSE
    /\ stdout = <<>>
    /\ sendOrder = <<>>

\* main at line 39, in any current directory of a file system with any go.work
InitWS ==
    /\ cwd \in Dirs
    /\ workDirs \in SUBSET Dirs
    /\ fileLines \in Files
    /\ listErrAt \in {{}} \cup {{d} : d \in Dirs}
    /\ getwdErr \in BOOLEAN
    /\ fileErr \in BOOLEAN
    /\ gpc = "getwd"
    /\ path = <<>>
    /\ listErr = FALSE
    /\ wPath = <<>>
    /\ paths = <<>>
    /\ showFail = FALSE
    /\ mainPc = "discover"
    /\ RunIdle

NextWS == Getwd \/ SearchDir \/ ReturnNotFound

SpecWS == InitWS /\ [][NextWS]_vars

\* the entries of the use block of the go.work files main is run on
MemberEntries == { <<" ", "a">>, <<"b">> }

\* main after line 39: getWorkspacePaths has returned the members of a go.work
\* found in the current directory, or has found none
Discovered(entries) ==
    /\ cwd = DirAt(1)
    /\ \/ /\ workDirs = {cwd}
          /\ \E ms \in SeqsUpTo(entries, MaxPaths) :
                fileLines = <<UseOpen>> \o ms \o << <<")">> >>
          /\ wPath = cwd
          /\ paths = readWorkspaceFile(wPath, fileLines, FALSE)
       \/ /\ workDirs = {}
          /\ fileLines = <<>>
          /\ wPath = <<>>
          /\ paths = <<>>
    /\ listErrAt = {}
    /\ getwdErr = FALSE
    /\ fileErr = FALSE
    /\ gpc = "done"
    /\ path = cwd
    /\ listErr = FALSE
    /\ showFail \in BOOLEAN

InitRun == Discovered(MemberEntries) /\ mainPc = "exec" /\ RunIdle

NextRun ==
    \/ ExecAllTests
    \/ LauncherSpawn
    \/ LauncherWait
    \/ LauncherClose
    \/ \E i \in 1..MaxPaths : ExecTest(i)
    \/ \E i \in 1..MaxPaths : ExecNeverExits(i)
    \/ \E i \in 1..MaxPaths : AnalyzeAndSend(i)
    \/ \E i \in 1..MaxPaths : WorkerDone(i)
    \/ Crash
    \/ MainRecv
    \/ MainReturn
    \/ PrintResults

SpecRun == InitRun /\ [][NextRun]_vars


\* the steps of the main goroutine in execAllTests, of the launcher
\* goroutine, and of worker i after its subprocess has exited
MainSteps == ExecAllTests \/ MainRecv \/ MainReturn

LauncherSteps == LauncherSpawn \/ LauncherWait \/ LauncherClose

WorkerSteps(i) == AnalyzeAndSend(i) \/ WorkerDone(i)

\* the Go scheduler runs every goroutine that can take a step, and a
\* subprocess that exits at all exits eventually
FairRun ==
    /\ SpecRun
    /\ WF_vars(MainSteps)
    /\ WF_vars(LauncherSteps)
    /\ \A i \in 1..MaxPaths : WF_vars(ExecTest(i))
    /\ \A i \in 1..MaxPaths : WF_vars(WorkerSteps(i))

\* a name too long for the banner of a detail block
LongName == Repeat("c", BannerWidth + 2)

PrintEntries == MemberEntries \cup {LongName}

\* main at line 44: execAllTests has returned one record per member, with
\* any execution the analyzer can yield
InitPrint ==
    /\ Discovered(PrintEntries)
    /\ mainPc = "print"
    /\ \E execs \in [Workers -> Executions] :
          results = [i \in Workers |->
                        [label |-> removeRelativePath(wPath, paths[i]),
                         testExec |-> execs[i]]]
    /\ lpc = IF Workers = {} THEN "idle" ELSE "done"
    /\ li = Len(paths) + 1
    /\ wpc = [i \in Workers |-> "done"]
    /\ wout = [i \in Workers |-> NoOutput]
    /\ wg = 0
    /\ chCap = ChanCap(paths)
    /\ ch = <<>>
    /\ chClosed = (Workers # {})
    /\ panicked = FALSE
    /\ crashed = FALSE
    /\ stdout = <<>>
    /\ sendOrder = [i \in Workers |-> i]

NextPrint == PrintResults

SpecPrint == InitPrint /\ [][NextPrint]_vars

-----------------------------------------------------------------------------
(* Properties of workspace discovery and descriptor parsing (SpecWS) *)

\* the file holds a line starting with "use (" and, after it, a line with ")"
WellFormedBlock(lines) ==
    \E i, j \in 1..Len(lines) :
        i < j /\ HasPrefix(lines[i], UseOpen) /\ Contains(lines[j], ")")

\* the lines between the first "use (" line and the first later line with ")"
BlockInterior(lines) ==
    LET opens == {i \in 1..Len(lines) : HasPrefix(lines[i], UseOpen)}
        i == CHOOSE k \in opens : \A m \in opens : k <= m
        closes == {j \in (i + 1)..Len(lines) : Contains(lines[j], ")")}
        j == CHOOSE k \in closes : \A m \in closes : k <= m
    IN  SubSeq(lines, i + 1, j - 1)

\* C1: whenever the go.work file found holds a well-formed use block, the
\* members returned are exactly the trimmed interior lines of the block, in
\* file order, each joined onto the root, whatever precedes or follows the
\* block.
C1_ExactlyTheBlock ==
    (gpc = "done" /\ wPath # <<>> /\ ~fileErr /\ WellFormedBlock(fileLines)) =>
        LET inner == BlockInterior(fileLines)
        IN  paths = [k \in 1..Len(inner) |-> Join(wPath, TrimSpace(inner[k]))]

\* the directories from d up to the filesystem root, the root included
RECURSIVE Chain(_)
Chain(d) == IF d = RootDir THEN <<d>> ELSE <<d>> \o Chain(Dir(d))

\* C4: without a listing error, getWorkspacePaths returns the first directory
\* on the chain cwd, parent(cwd), ..., filesystem root that holds go.work,
\* with the members of its descriptor, and returns ("", nil) only if no
\* directory on the chain, the root included, holds one.
C4_FirstOnChain ==
    (gpc = "done" /\ ~getwdErr /\ ~listErr) =>
        LET c == Chain(cwd)
            hits == {k \in 1..Len(c) : c[k] \in workDirs}
        IN  IF hits # {}
            THEN LET k == CHOOSE n \in hits : \A m \in hits : n <= m
                 IN  /\ wPath = c[k]
                     /\ paths = readWorkspaceFile(c[k], fileLines, fileErr)
            ELSE wPath = <<>> /\ paths = <<>>

-----------------------------------------------------------------------------
(* Properties of execAllTests (SpecRun, FairRun) *)

Returned == mainPc \in {"print", "done"}

SomeHung == \E i \in Workers : wpc[i] = "hung"

\* how many elements of the sequence q are equal to x
Count(q, x) == Cardinality({i \in 1..Len(q) : q[i] = x})

LabelsOf(rs) == [i \in 1..Len(rs) |-> rs[i].label]

MemberLabels == [i \in Workers |-> removeRelativePath(wPath, paths[i])]

\* C2: when no analyzer call fails, the channel is closed only after every
\* worker has sent its record, and execAllTests returns exactly one record
\* per member: the labels returned are, as a multiset, the relativized
\* member paths.
C2_OneRecordPerMember ==
    /\ (chClosed /\ ~panicked) => \A i \in Workers : wpc[i] = "done"
    /\ (Returned /\ paths # <<>> /\ ~panicked) =>
          /\ Len(results) = Len(paths)
          /\ \A i \in Workers :
                Count(LabelsOf(results), MemberLabels[i]) = Count(MemberLabels, MemberLabels[i])

\* execAllTests has returned the records of two members in the order
\* opposite to that of the member list
C2_Witness ==
    /\ mainPc = "print"
    /\ ~panicked
    /\ Len(paths) >= 2
    /\ Len(sendOrder) = Len(paths)
    /\ sendOrder[1] > sendOrder[2]
    /\ MemberLabels[1] # MemberLabels[2]

\* C7: no worker blocks on its send and no worker sends on a closed channel:
\* the channel never holds more than its capacity, and whenever a worker is
\* about to send, the channel is open and has a free slot, whether or not the
\* parent has drained anything.
C7_SendNeverBlocks ==
    /\ Len(ch) <= chCap
    /\ \A i \in Workers :
          (wpc[i] = "analyze" /\ ~ScanFails(wout[i])) =>
              (Len(ch) < chCap /\ ~chClosed)

\* every worker has sent and the parent has drained nothing: the channel is
\* full
C7_Witness ==
    /\ mainPc = "drain"
    /\ results = <<>>
    /\ Len(paths) >= 2
    /\ Len(ch) = Len(paths)
    /\ ~chClosed

\* C8: under fair scheduling execAllTests returns if every subprocess exits
\* and no analyzer call fails, and it never returns once a subprocess never
\* exits.
C8_ReturnsIffAllExit ==
    /\ <>(Returned \/ panicked \/ SomeHung)
    /\ [](SomeHung => ~Returned)

\* one subprocess never exits, every other worker has finished, and the
\* parent waits on the empty open channel
C8_Witness ==
    /\ Len(paths) >= 2
    /\ SomeHung
    /\ \E i \in Workers : wpc[i] = "done"
    /\ \A i \in Workers : wpc[i] \in {"hung", "done"}
    /\ lpc = "wait"
    /\ mainPc = "drain"
    /\ ch = <<>>

-----------------------------------------------------------------------------
(* Properties of printResults (SpecRun, SpecPrint) *)

Printed == stdout # <<>>

OfKind(kind) == SelectSeq(stdout, LAMBDA l : l.kind = kind)

\* C3: the summary lines are printed in ascending lexicographic order of
\* label, one per record, whatever the order in which the workers pushed
\* their records.
C3_SummariesAscending ==
    Printed =>
        LET sm == OfKind("summary") IN
        /\ LabelsOf(sm) = LabelsOf(results)
        /\ \A i, j \in 1..Len(sm) : i < j => ~StrLess(sm[j].label, sm[i].label)

\* the worker of the greater label pushed first, and the summary was printed
C3_Witness ==
    /\ mainPc = "done"
    /\ Len(sendOrder) >= 2
    /\ StrLess(MemberLabels[sendOrder[2]], MemberLabels[sendOrder[1]])
    /\ Len(OfKind("summary")) >= 2

\* C5: the summary line of every record has the skipped icon and no counts
\* when total = 0; the failure icon with test count, elapsed time, error
\* count and failed count when total > 0 and errors > 0 or failed > 0; the
\* success icon with test count and elapsed time only when total > 0 and
\* errors = 0 and failed = 0.
C5_IconSelection ==
    Printed =>
        \A i \in 1..Len(results) :
            LET e == results[i].testExec
                l == stdout[i + 1]
            IN  /\ l.kind = "summary"
                /\ l.label = results[i].label
                /\ e.total = 0 =>
                      l.icon = "skipped" /\ l.fields = <<>>
                /\ (e.total > 0 /\ (e.errors > 0 \/ e.failed > 0)) =>
                      /\ l.icon = "failure"
                      /\ l.fields = << <<"tests", e.total>>, <<"elapsed", 0>>,
                                       <<"errors", e.errors>>, <<"failed", e.failed>> >>
                /\ (e.total > 0 /\ e.errors = 0 /\ e.failed = 0) =>
                      /\ l.icon = "success"
                      /\ l.fields = << <<"tests", e.total>>, <<"elapsed", 0>> >>

\* a record with errors and no failed test was printed with the failure
\* icon, next to a record printed with another icon
C5_Witness ==
    /\ Printed
    /\ \E i \in 1..Len(results) :
          /\ results[i].testExec.total > 0
          /\ results[i].testExec.errors > 0
          /\ results[i].testExec.failed = 0
          /\ stdout[i + 1].icon = "failure"
    /\ \E i \in 1..Len(results) : stdout[i + 1].icon # "failure"

\* printResults has run to its end or was aborted
PrintRan == Len(results) > 0 /\ (mainPc = "done" \/ (mainPc = "print" /\ crashed))

\* C6: with the failure-detail flag, a detail block is printed for exactly
\* the records with errors > 0 or failed > 0, in sorted label order, after
\* all summary lines; without the flag no detail block is printed.
C6_DetailBlocks ==
    PrintRan =>
        LET failing == SelectSeq(results,
                           LAMBDA r : r.testExec.errors > 0 \/ r.testExec.failed > 0)
            det == OfKind("detail")
        IN  /\ showFail =>
               /\ Len(det) = Len(failing)
               /\ \A k \in 1..Len(det) :
                     /\ det[k].label = failing[k].label
                     /\ det[k].fields = << <<"tests", failing[k].testExec.total>>,
                                           <<"errors", failing[k].testExec.errors>>,
                                           <<"failed", failing[k].testExec.failed>> >>
            /\ ~showFail => det = <<>>
            /\ \A a, b \in 1..Len(stdout) :
                  (stdout[a].kind = "summary" /\ stdout[b].kind = "detail") => a < b

\* C9: a detail block is printed for a record only if the summary line of
\* that record carries the failure icon.
C9_DetailOnlyAfterFailureIcon ==
    Printed =>
        \A i \in 1..Len(results) :
            (\E d \in 1..Len(stdout) :
                /\ stdout[d].kind = "detail"
                /\ stdout[d].label = results[i].label
                /\ stdout[d].fields = << <<"tests", results[i].testExec.total>>,
                                         <<"errors", results[i].testExec.errors>>,
                                         <<"failed", results[i].testExec.failed>> >>)
            => stdout[i + 1].icon = "failure"

\* C10: for every record with errors or failures, whatever the length of its
\* label, the repeat count of the banner is not negative, and printing the
\* banner does not abort the program.
C10_BannerCountNonNegative ==
    Printed =>
        /\ \A i \in 1..Len(results) :
              (results[i].testExec.errors > 0 \/ results[i].testExec.failed > 0) =>
                  GoDiv(BannerWidth - Len(results[i].label), 2) >= 0
        /\ ~crashed

====
